---- MODULE Spec2Model ----
(***************************************************************************)
(* m-accounting: the JSON record store (app/storage.py), the REST handlers *)
(* over it (app/api.py, app/models.py), the PDF batch converter            *)
(* (app/convert/pdf_to_json.py) and the startup conversion task            *)
(* (app/server.py).                                                        *)
(*                                                                         *)
(* Files are modelled by their content class and length, requests by the   *)
(* file-system calls they make one after the other: every open, every      *)
(* read and every close of a file is one step, so that requests running on *)
(* the framework's worker threads interleave where the real ones do.       *)
(***************************************************************************)
EXTENDS Integers, Sequences, FiniteSets, TLC

\* ------------------------------------------------------------------ bounds
MaxRequests == 2     \* requests begun in one run
MaxBatch == 2        \* longest POST body

Threads == {"w1", "w2"}          \* worker threads serving requests
TxIds == {"t1", "t2"}
CatIds == {"c1", "c2"}
PdfStems == {"statement", "transactions", "categories"}

None == "null"                   \* Python None / JSON null

\* ------------------------------------------------------------------ values
\* A date travels in two forms: the ISO string of a payload or of a JSON
\* document, and the datetime.date object of a validated Transaction.
IsoStr(d) == [kind |-> "str", v |-> d]
DateObj(d) == [kind |-> "date", v |-> d]

TxPayload(id, amount, currency, type) ==
    [id |-> id, date |-> IsoStr("2024-01-01"), description |-> "",
     amount |-> amount, currency |-> currency, type |-> type,
     category_id |-> None, account |-> None]

ValidTxPayloads ==
    {TxPayload("t1", 1, "USD", "expense"), TxPayload("t1", 2, "USD", "income"),
     TxPayload("t2", 1, "EUR", "transfer")}
InvalidTxPayloads ==
    {TxPayload("t2", 2, "US", "expense"), TxPayload("t1", 1, "USD", "gift")}
TxPayloads == ValidTxPayloads \cup InvalidTxPayloads
\* The smaller choice of payloads for the runs whose interest is elsewhere.
FewTxPayloads ==
    {TxPayload("t1", 1, "USD", "expense"), TxPayload("t2", 2, "US", "expense")}

\* Category payloads; parent_id may be left out of the payload.
CatPayloads ==
    {[id |-> "c1", name |-> "Food"],
     [id |-> "c1", name |-> "Fruit", parent_id |-> "c1"],
     [id |-> "c2", name |-> "Rent", parent_id |-> "c9"]}
FewCatPayloads ==
    {[id |-> "c1", name |-> "Food"], [id |-> "c2", name |-> "Rent", parent_id |-> "c9"]}

Batches(S) == UNION {[1..n -> S] : n \in 0..MaxBatch}

\* models.py Transaction: field constraints checked by model_validate.
TransactionTypes == {"expense", "income", "transfer"}
CurrencyOk(p) == Len(p.currency) = 3
TypeOk(p) == p.type \in TransactionTypes
TxFieldsValid(p) == CurrencyOk(p) /\ TypeOk(p)

\* Transaction.model_validate: the ISO string becomes a date object.
TxValidate(p) == [p EXCEPT !.date = DateObj(p.date.v)]
\* Transaction.model_dump(): python mode, the date object stays a date object.
TxDump(t) == t

\* Category.model_validate: parent_id defaults to None.
CatValidate(p) ==
    [id |-> p.id, name |-> p.name,
     parent_id |-> IF "parent_id" \in DOMAIN p THEN p.parent_id ELSE None]
\* A dump that leaves the parent out: model_dump(exclude={"parent_id"}).
CatDumpWithoutParent(c) == [c EXCEPT !.parent_id = None]

\* Category.model_dump(): three fields, each a str or None.
CatDump(c) == c

\* ------------------------------------------------------------------ files
\* A file is its content class, the entries of the array it holds (written
\* in full), and its length in units: "[]" is 1, every entry adds 3, an
\* entry cut short adds 1.
\*   absent  : no such file        void   : zero bytes (just opened for writing)
\*   doc     : a complete array    partial: an array cut short by a failed dump
\*   mixed   : a shorter document written over a longer one
\*   foreign : a converted PDF document (a JSON object, not an array), taken
\*             to be longer than any array the model's store writes
Absent == [st |-> "absent", ents |-> <<>>, size |-> 0]
Void == [st |-> "void", ents |-> <<>>, size |-> 0]
Doc(ents) == [st |-> "doc", ents |-> ents, size |-> 1 + 3 * Len(ents)]
Partial(ents) == [st |-> "partial", ents |-> ents, size |-> 2 + 3 * Len(ents)]
Mixed(n) == [st |-> "mixed", ents |-> <<>>, size |-> n]
Foreign ==
    [st |-> "foreign", ents |-> <<>>,
     size |-> 3 * (Cardinality(TxIds) + Cardinality(CatIds)) + 2]

\* json.dump: a value of a type the encoder does not know raises TypeError.
Encodable(d) == IF "date" \in DOMAIN d THEN d.date.kind = "str" ELSE TRUE

\* A dump that writes nothing at all.
JsonDumpNothing(data) == Void

\* json.dump(data, fp, indent=2) streams the document into fp: what fp holds
\* when dump returns or raises.
JsonDump(data) ==
    LET bad == {i \in 1..Len(data) : ~Encodable(data[i])}
    IN  IF bad = {} THEN Doc(data)
        ELSE LET k == CHOOSE i \in bad : \A j \in bad : i <= j
             IN  Partial(SubSeq(data, 1, k - 1))

\* Closing a file opened with "w": the buffered bytes land at offset 0 of
\* what the file holds now; bytes beyond them stay.
Overlay(mine, cur) == IF cur.size > mine.size THEN Mixed(cur.size) ELSE mine

\* _read_json followed by model_validate of every item.
ReadOk(f) == f.st = "doc"
ReadTxs(f) == [i \in 1..Len(f.ents) |-> TxValidate(f.ents[i])]
ReadCats(f) == [i \in 1..Len(f.ents) |-> CatValidate(f.ents[i])]

\* ------------------------------------------------------------------ dict
\* What a plain list would do in place of the dict: append, never replace.
DictSetAppends(seq, t) == Append(seq, t)

\* existing[t.id] = t on an insertion-ordered dict held as its values().
DictSet(seq, t) ==
    IF \E i \in 1..Len(seq) : seq[i].id = t.id
    THEN [i \in 1..Len(seq) |-> IF seq[i].id = t.id THEN t ELSE seq[i]]
    ELSE Append(seq, t)

RECURSIVE DictFill(_, _)
DictFill(seq, items) ==
    IF items = <<>> THEN seq
    ELSE DictFill(DictSet(seq, Head(items)), Tail(items))

\* {t.id: t for t in listed}; for t in batch: existing[t.id] = t; values()
Upsert(listed, batch) == DictFill(DictFill(<<>>, listed), batch)

\* [t for t in txs if t.id != tx_id]
RECURSIVE Without(_, _)
Without(seq, id) ==
    IF seq = <<>> THEN <<>>
    ELSE IF Head(seq).id = id THEN Without(Tail(seq), id)
         ELSE <<Head(seq)>> \o Without(Tail(seq), id)

\* get_transaction: the first listed transaction with that id, or None.
Lookup(seq, id) ==
    LET hits == {i \in 1..Len(seq) : seq[i].id = id}
    IN  IF hits = {} THEN <<>>
        ELSE <<seq[CHOOSE i \in hits : \A j \in hits : i <= j]>>

Ids(seq) == {seq[i].id : i \in 1..Len(seq)}
UniqueIds(seq) == \A i, j \in 1..Len(seq) : seq[i].id = seq[j].id => i = j
\* Response serialisation (response_model): the date goes out as ISO string.
TxJson(t) == [t EXCEPT !.date = IsoStr(t.date.v)]
CatJson(c) == c

\* ------------------------------------------------------------------ state
VARIABLES
    files,      \* [tx, cat]: transactions.json and categories.json of the data directory
    inputDir,   \* stems of the PDFs in the input directory
    outFiles,   \* stems of the .json files the converter has written
    server,     \* "starting" | "serving"
    conv,       \* the startup conversion task: [pc, pending]
    active,     \* the worker threads that take requests
    offered,    \* which payloads this run's clients send: "all" | "few"
    req,        \* per thread: the request it serves and how far it is
    nreq,       \* requests begun
    last        \* the request that ended last, and transactions.json as it left it

vars == <<files, inputDir, outFiles, server, conv, active, offered, req, nreq, last>>

TxOps == {"GET_TXS", "GET_TX", "POST_TXS", "DELETE_TX"}
CatOps == {"GET_CATS", "POST_CATS"}
FileOf(op) == IF op \in TxOps THEN "tx" ELSE "cat"

Idle ==
    [pc |-> "idle", op |-> "-", id |-> "-", batch |-> <<>>, snap |-> <<>>,
     buf |-> Void, ret |-> "-", code |-> 0, body |-> <<>>]
NoLast == [op |-> "-", id |-> "-", batch |-> <<>>, ret |-> "-", code |-> 0, tx |-> Absent]

\* Data directories the process may be started on: a fresh one, or one that
\* already holds schema-conforming documents with unique ids.
SeedTx1 == TxPayload("t1", 1, "USD", "expense")
SeedTx2 == TxPayload("t2", 1, "EUR", "transfer")
TxSeeds == {Absent, Doc(<<>>), Doc(<<SeedTx1>>), Doc(<<SeedTx1, SeedTx2>>)}
CatSeeds == {Absent, Doc(<<>>)}

InitWith(threadSets, pdfSets, txSeeds, payloads) ==
    /\ files \in [tx : txSeeds, cat : CatSeeds]
    /\ inputDir \in pdfSets
    /\ outFiles = {}
    /\ server = "starting"
    /\ conv = [pc |-> "none", pending |-> {}]
    /\ active \in threadSets
    /\ offered = payloads
    /\ req = [t \in Threads |-> Idle]
    /\ nreq = 0
    /\ last = NoLast

\* Requests on every worker thread at once.
Init ==
    InitWith({Threads}, {{"statement"}}, {Absent, Doc(<<SeedTx1, SeedTx2>>)},
             "few")
\* One request at a time, and no PDF named like a store document.
InitSeq == InitWith({{"w1"}}, {{"statement"}}, TxSeeds, "all")
\* One request at a time, any PDFs in the input directory.
InitConv ==
    InitWith({{"w1"}}, SUBSET PdfStems, {Absent, Doc(<<SeedTx1>>)}, "few")

\* ------------------------------------------------------------------ startup
\* A startup handler that awaits the conversion: "await _run()".
StartupHandlerAwaits ==
    /\ server = "starting"
    /\ \/ /\ conv.pc = "none"
          /\ conv' = [pc |-> "scheduled", pending |-> {}]
          /\ server' = server
       \/ /\ conv.pc \in {"finished", "suppressed"}
          /\ server' = "serving"
          /\ conv' = conv
    /\ UNCHANGED <<files, inputDir, outFiles, active, offered, req, nreq, last>>

\* server.py _convert_on_startup: create the task and return.
StartupHandler ==
    /\ server = "starting"
    /\ server' = "serving"
    /\ conv' = [pc |-> "scheduled", pending |-> {}]
    /\ UNCHANGED <<files, inputDir, outFiles, active, offered, req, nreq, last>>

\* convert_directory up to the loop: glob("*.pdf") of the input directory.
ConvBegin ==
    /\ conv.pc = "scheduled"
    /\ conv' = [pc |-> "running", pending |-> inputDir]
    /\ UNCHANGED <<files, inputDir, outFiles, server, active, offered, req, nreq, last>>

\* write_text of out_dir / (stem + ".json"): the path decides the file.
WriteConverted(fs, stem) ==
    IF stem = "transactions" THEN [fs EXCEPT !.tx = Foreign]
    ELSE IF stem = "categories" THEN [fs EXCEPT !.cat = Foreign]
    ELSE fs

\* One turn of the loop: convert_pdf_to_json returns.
ConvertPdf ==
    /\ conv.pc = "running"
    /\ \E stem \in conv.pending :
        /\ files' = WriteConverted(files, stem)
        /\ outFiles' = outFiles \cup {stem}
        /\ conv' = [conv EXCEPT !.pending = @ \ {stem}]
    /\ UNCHANGED <<inputDir, server, active, offered, req, nreq, last>>

\* A loop that catches the failure of one PDF and goes on to the next.
ConvertRaisesIsolated ==
    /\ conv.pc = "running"
    /\ \E stem \in conv.pending : conv' = [conv EXCEPT !.pending = @ \ {stem}]
    /\ UNCHANGED <<files, inputDir, outFiles, server, active, offered, req, nreq, last>>

\* One turn of the loop: the external converter raises; the exception leaves
\* convert_directory and is dropped by contextlib.suppress in _run.
ConvertRaises ==
    /\ conv.pc = "running"
    /\ conv.pending # {}
    /\ conv' = [conv EXCEPT !.pc = "suppressed"]
    /\ UNCHANGED <<files, inputDir, outFiles, server, active, offered, req, nreq, last>>

\* The loop is over: convert_directory returns.
ConvReturn ==
    /\ conv.pc = "running"
    /\ conv.pending = {}
    /\ conv' = [conv EXCEPT !.pc = "finished"]
    /\ UNCHANGED <<files, inputDir, outFiles, server, active, offered, req, nreq, last>>

\* ------------------------------------------------------------------ requests
\* The pool hands a request to its first free thread.
Earlier(u, t) == u = "w1" /\ t = "w2"

Respond(r, ret, code, body) ==
    [r EXCEPT !.pc = "done", !.ret = ret, !.code = code, !.body = body]
\* The history of the request before: kept when requests run one at a time
\* (it is what "the call before" means only then).
Summary(r, tx) ==
    IF Cardinality(active) = 1
    THEN [op |-> r.op, id |-> r.id, batch |-> r.batch, ret |-> r.ret, code |-> r.code,
          tx |-> tx]
    ELSE last

\* A request arrives and a worker thread takes it: Depends(get_store) runs
\* first, the JsonStore constructor.
Begin(t, op, id, batch) ==
    /\ server = "serving"
    /\ t \in active
    /\ req[t].pc = "idle"
    /\ \A u \in active : Earlier(u, t) => req[u].pc # "idle"
    /\ nreq < MaxRequests
    /\ nreq' = nreq + 1
    /\ req' = [req EXCEPT ![t] = [Idle EXCEPT !.pc = "ctor_tx", !.op = op,
                                              !.id = id, !.batch = batch]]
    /\ UNCHANGED <<files, inputDir, outFiles, server, conv, active, offered, last>>

OfferedTxs == IF offered = "all" THEN TxPayloads ELSE FewTxPayloads
OfferedCats == IF offered = "all" THEN CatPayloads ELSE FewCatPayloads

BeginRequest(t) ==
    \/ \E op \in {"GET_TXS", "GET_CATS"} : Begin(t, op, "-", <<>>)
    \/ \E op \in {"GET_TX", "DELETE_TX"}, id \in TxIds : Begin(t, op, id, <<>>)
    \/ \E b \in Batches(OfferedTxs) : Begin(t, "POST_TXS", "-", b)
    \/ \E b \in Batches(OfferedCats) : Begin(t, "POST_CATS", "-", b)

CtorFile(pc) == IF pc \in {"ctor_tx", "ctor_tx_open", "ctor_tx_dump"} THEN "tx" ELSE "cat"
Exists(f) == f.st # "absent"

\* JsonStore.__init__ has no more to do: every path.exists() left answers
\* True.  A document never goes away once it exists, so an exists() that
\* answers True is taken together with the step that follows it.
CtorDone(r, fs) ==
    \/ r.pc = "call"
    \/ r.pc = "ctor_cat" /\ Exists(fs.cat)
    \/ r.pc = "ctor_tx" /\ Exists(fs.tx) /\ Exists(fs.cat)

\* JsonStore.__init__: a path.exists() that answers False.
CtorMissing(t) ==
    /\ \/ /\ req[t].pc = "ctor_tx"
          /\ ~Exists(files.tx)
          /\ req' = [req EXCEPT ![t].pc = "ctor_tx_open"]
       \/ /\ \/ req[t].pc = "ctor_tx" /\ Exists(files.tx)
             \/ req[t].pc = "ctor_cat"
          /\ ~Exists(files.cat)
          /\ req' = [req EXCEPT ![t].pc = "ctor_cat_open"]
    /\ UNCHANGED <<files, inputDir, outFiles, server, conv, active, offered, nreq, last>>

\* _write_json(path, []): path.open("w") creates or truncates the file.
CtorOpen(t) ==
    /\ req[t].pc \in {"ctor_tx_open", "ctor_cat_open"}
    /\ LET f == CtorFile(req[t].pc)
       IN  /\ files' = [files EXCEPT ![f] = Void]
           /\ req' = [req EXCEPT ![t].pc =
                         IF f = "tx" THEN "ctor_tx_dump" ELSE "ctor_cat_dump"]
    /\ UNCHANGED <<inputDir, outFiles, server, conv, active, offered, nreq, last>>

\* _write_json(path, []): json.dump and the close of the file.
CtorDump(t) ==
    /\ req[t].pc \in {"ctor_tx_dump", "ctor_cat_dump"}
    /\ LET f == CtorFile(req[t].pc)
       IN  /\ files' = [files EXCEPT ![f] = Overlay(JsonDump(<<>>), @)]
           /\ req' = [req EXCEPT ![t].pc = IF f = "tx" THEN "ctor_cat" ELSE "call"]
    /\ UNCHANGED <<inputDir, outFiles, server, conv, active, offered, nreq, last>>

\* A weaker validation: only the first element of the body is looked at.
BodyValidFirstOnly(r) ==
    IF r.op = "POST_TXS" /\ r.batch # <<>>
    THEN TxFieldsValid(r.batch[1])
    ELSE TRUE

\* The framework solves Depends(get_store) first and validates the body
\* against list[Transaction] / list[Category] after it; a body that fails
\* is answered 422 and the handler is not called.
BodyValid(r) ==
    IF r.op = "POST_TXS"
    THEN \A i \in 1..Len(r.batch) : TxFieldsValid(r.batch[i])
    ELSE TRUE

Reject(t) ==
    /\ CtorDone(req[t], files)
    /\ ~BodyValid(req[t])
    /\ req' = [req EXCEPT ![t] = Respond(@, "-", 422, <<>>)]
    /\ UNCHANGED <<files, inputDir, outFiles, server, conv, active, offered, nreq, last>>

\* The handler is entered: the store is built and the body is valid.
Entered(t, ops) ==
    /\ CtorDone(req[t], files)
    /\ BodyValid(req[t])
    /\ req[t].op \in ops

\* ------------------------------------------------------------------ store calls
ReadList(f, file) == IF f = "tx" THEN ReadTxs(file) ELSE ReadCats(file)
\* The body parsed as list[Transaction] / list[Category].
ValidateList(f, batch) ==
    [i \in 1..Len(batch) |->
        IF f = "tx" THEN TxValidate(batch[i]) ELSE CatValidate(batch[i])]
\* [t.model_dump() for t in ...]
DumpList(f, seq) ==
    [i \in 1..Len(seq) |-> IF f = "tx" THEN TxDump(seq[i]) ELSE CatDump(seq[i])]
\* The list a handler returns, serialised by its response_model.
JsonList(f, seq) ==
    [i \in 1..Len(seq) |-> IF f = "tx" THEN TxJson(seq[i]) ELSE CatJson(seq[i])]

\* GET /transactions, GET /categories: store.list_*()
ListCall(t) ==
    /\ Entered(t, {"GET_TXS", "GET_CATS"})
    /\ LET r == req[t]
           f == FileOf(r.op)
       IN  IF ReadOk(files[f])
           THEN /\ req' = [req EXCEPT ![t] =
                              Respond(r, "list", 200, JsonList(f, ReadList(f, files[f])))]
           ELSE /\ req' = [req EXCEPT ![t] = Respond(r, "raise", 500, <<>>)]
    /\ UNCHANGED <<files, inputDir, outFiles, server, conv, active, offered, nreq, last>>

\* GET /transactions/{id}: store.get_transaction(id), 404 on None
GetCall(t) ==
    /\ Entered(t, {"GET_TX"})
    /\ LET r == req[t]
           hit == Lookup(ReadTxs(files.tx), r.id)
       IN  IF ~ReadOk(files.tx)
           THEN /\ req' = [req EXCEPT ![t] = Respond(r, "raise", 500, <<>>)]
           ELSE IF hit = <<>>
           THEN /\ req' = [req EXCEPT ![t] = Respond(r, "None", 404, <<>>)]
           ELSE /\ req' = [req EXCEPT ![t] = Respond(r, "found", 200, JsonList("tx", hit))]
    /\ UNCHANGED <<files, inputDir, outFiles, server, conv, active, offered, nreq, last>>

\* upsert_*: list_*(), the merge by id, and model_dump of every value.
UpsertRead(t) ==
    /\ Entered(t, {"POST_TXS", "POST_CATS"})
    /\ LET r == req[t]
           f == FileOf(r.op)
           listed == ReadList(f, files[f])
           merged == Upsert(listed, ValidateList(f, r.batch))
       IN  IF ReadOk(files[f])
           THEN /\ req' = [req EXCEPT ![t].pc = "w_open", ![t].snap = listed,
                                      ![t].buf = JsonDump(DumpList(f, merged))]
           ELSE /\ req' = [req EXCEPT ![t] = Respond(r, "raise", 500, <<>>)]
    /\ UNCHANGED <<files, inputDir, outFiles, server, conv, active, offered, nreq, last>>

\* delete_transaction: list_transactions(), the filter, return False when
\* nothing was filtered out; DELETE answers 404 then.
DeleteRead(t) ==
    /\ Entered(t, {"DELETE_TX"})
    /\ LET r == req[t]
           txs == ReadTxs(files.tx)
           new_list == Without(txs, r.id)
       IN  IF ~ReadOk(files.tx)
           THEN /\ req' = [req EXCEPT ![t] = Respond(r, "raise", 500, <<>>)]
           ELSE IF Len(new_list) = Len(txs)
           THEN /\ req' = [req EXCEPT ![t] = Respond([r EXCEPT !.snap = txs], "False", 404, <<>>)]
           ELSE /\ req' = [req EXCEPT ![t].pc = "w_open", ![t].snap = txs,
                                      ![t].buf = JsonDump(DumpList("tx", new_list))]
    /\ UNCHANGED <<files, inputDir, outFiles, server, conv, active, offered, nreq, last>>

\* _write_json: path.open("w") truncates the file.
WriteOpen(t) ==
    /\ req[t].pc = "w_open"
    /\ files' = [files EXCEPT ![FileOf(req[t].op)] = Void]
    /\ req' = [req EXCEPT ![t].pc = "w_dump"]
    /\ UNCHANGED <<inputDir, outFiles, server, conv, active, offered, nreq, last>>

\* _write_json: json.dump into the file and the close at the end of the with
\* block, which also runs when json.dump raises.
WriteClose(t) ==
    /\ req[t].pc = "w_dump"
    /\ LET r == req[t]
           f == FileOf(r.op)
           written == [files EXCEPT ![f] = Overlay(r.buf, @)]
       IN  /\ files' = written
           /\ IF r.buf.st = "partial"
              THEN /\ req' = [req EXCEPT ![t] = Respond(r, "raise", 500, <<>>)]
              ELSE IF r.op = "DELETE_TX"
              THEN /\ req' = [req EXCEPT ![t] = Respond(r, "True", 200, <<>>)]
              ELSE /\ req' = [req EXCEPT ![t].pc = "relist", ![t].ret = "None"]
    /\ UNCHANGED <<inputDir, outFiles, server, conv, active, offered, nreq, last>>

\* POST handlers: return store.list_*()
Relist(t) ==
    /\ req[t].pc = "relist"
    /\ LET r == req[t]
           f == FileOf(r.op)
       IN  IF ReadOk(files[f])
           THEN /\ req' = [req EXCEPT ![t] =
                              Respond(r, "None", 200, JsonList(f, ReadList(f, files[f])))]
           ELSE /\ req' = [req EXCEPT ![t] = Respond(r, "None", 500, <<>>)]
    /\ UNCHANGED <<files, inputDir, outFiles, server, conv, active, offered, nreq, last>>

\* The response is sent; the thread goes back to the pool.
Finish(t) ==
    /\ req[t].pc = "done"
    /\ req' = [req EXCEPT ![t] = Idle]
    /\ last' = Summary(req[t], files.tx)
    /\ UNCHANGED <<files, inputDir, outFiles, server, conv, active, offered, nreq>>

Next ==
    \/ StartupHandler
    \/ ConvBegin
    \/ ConvertPdf
    \/ ConvertRaises
    \/ ConvReturn
    \/ \E t \in Threads :
        \/ BeginRequest(t)
        \/ CtorMissing(t)
        \/ CtorOpen(t)
        \/ CtorDump(t)
        \/ Reject(t)
        \/ ListCall(t)
        \/ GetCall(t)
        \/ UpsertRead(t)
        \/ DeleteRead(t)
        \/ WriteOpen(t)
        \/ WriteClose(t)
        \/ Relist(t)
        \/ Finish(t)

Spec == Init /\ [][Next]_vars
SpecSeq == InitSeq /\ [][Next]_vars
SpecConv == InitConv /\ [][Next]_vars

\* What a worker thread does with a request it has taken.
Serve(t) ==
    \/ CtorMissing(t)
    \/ CtorOpen(t)
    \/ CtorDump(t)
    \/ Reject(t)
    \/ ListCall(t)
    \/ GetCall(t)
    \/ UpsertRead(t)
    \/ DeleteRead(t)
    \/ WriteOpen(t)
    \/ WriteClose(t)
    \/ Relist(t)
    \/ Finish(t)

\* One request at a time on a fresh or an empty data directory.
InitLive == InitWith({{"w1"}}, {{"statement"}}, {Absent, Doc(<<>>)}, "few")
\* The event loop runs the startup handler and every worker thread runs the
\* request it has taken; nothing is assumed of the conversion, which may
\* take for ever.
SpecLive ==
    /\ InitLive
    /\ [][Next]_vars
    /\ WF_vars(StartupHandler)
    /\ \A t \in Threads : WF_vars(Serve(t))
\* ------------------------------------------------------------------ claims
CountId(f, id) == Cardinality({i \in 1..Len(f.ents) : f.ents[i].id = id})
SingleValidPost(r) ==
    /\ r.op = "POST_TXS"
    /\ Len(r.batch) = 1
    /\ r.batch[1] \in ValidTxPayloads

\* C1: round trip.  When POST /transactions with one valid transaction t has
\* ended and nothing else wrote meanwhile, upsert_transactions([t]) has
\* returned and the list read after it holds an entry with t's id whose
\* every field equals t's.
C1_RoundTrip ==
    \A th \in Threads :
        LET r == req[th]
        IN  (r.pc = "done" /\ SingleValidPost(r))
            => /\ r.ret = "None"
               /\ r.code = 200
               /\ \E i \in 1..Len(r.body) : r.body[i] = r.batch[1]

\* C2: idempotence.  When upsert_transactions([t]) has run twice in a row,
\* transactions.json is as the first call left it and holds exactly one
\* entry with t's id.
C2_Idempotent ==
    \A th \in Threads :
        LET r == req[th]
        IN  (r.pc = "done" /\ SingleValidPost(r)
             /\ last.op = "POST_TXS" /\ last.batch = r.batch)
            => /\ files.tx = last.tx
               /\ files.tx.st = "doc"
               /\ CountId(files.tx, r.batch[1].id) = 1

\* C3: identifier uniqueness.  In every reachable state no two entries of
\* transactions.json share an id and no two entries of categories.json do.
C3_UniqueIds == UniqueIds(files.tx.ents) /\ UniqueIds(files.cat.ents)

\* A batch that names one id twice has been merged and written, and the
\* document holds that id.
C3_Witness ==
    \E th \in Threads :
        LET r == req[th]
        IN  /\ r.pc = "done"
            /\ r.op = "POST_CATS"
            /\ r.code = 200
            /\ Len(r.batch) = 2
            /\ r.batch[1].id = r.batch[2].id
            /\ files.cat.st = "doc"
            /\ r.batch[1].id \in Ids(files.cat.ents)
            /\ Len(files.cat.ents) = 2

\* C4: delete of a known id.  When the list delete_transaction(x) read holds
\* an entry with id x, the call returns True (DELETE answers 200), the
\* document afterwards is the list it read without x, the rest unchanged and
\* in order, and a GET of x after it answers 404.
C4_DeleteKnown ==
    \A th \in Threads :
        LET r == req[th]
        IN  /\ (r.pc = "done" /\ r.op = "DELETE_TX" /\ r.id \in Ids(r.snap))
               => /\ r.ret = "True"
                  /\ r.code = 200
                  /\ files.tx =
                        Doc(JsonList("tx", SelectSeq(r.snap, LAMBDA e : e.id # r.id)))
            /\ (r.pc = "done" /\ r.op = "GET_TX"
                /\ last.op = "DELETE_TX" /\ last.id = r.id /\ last.ret = "True")
               => r.code = 404
\* The first stored entry with that id, as a sequence of at most one entry.
StoredWithId(f, id) == SelectSeq(f.ents, LAMBDA e : e.id = id)

\* C5: delete of an unknown id.  Whenever delete_transaction(x) runs while
\* no stored entry has id x, it returns False (DELETE answers 404) and
\* writes nothing: both documents are as before the call.
C5_DeleteUnknown ==
    [][\A th \in Threads :
          (/\ req[th].op = "DELETE_TX"
           /\ req[th].pc \notin {"done", "w_open", "w_dump"}
           /\ req'[th].pc \in {"done", "w_open"}
           /\ StoredWithId(files.tx, req[th].id) = <<>>)
          => /\ req'[th].pc = "done"
             /\ req'[th].ret = "False"
             /\ req'[th].code = 404
             /\ files' = files]_vars

\* C6: all-or-nothing write.  Every step upsert_transactions takes on
\* transactions.json leaves in it either the complete list the call read or
\* the complete merged list.
C6_AllOrNothing ==
    [][\A th \in Threads :
          (/\ req[th].op = "POST_TXS"
           /\ req[th].pc \in {"w_open", "w_dump"}
           /\ req'[th] # req[th])
          => LET r == req[th]
                 merged == Upsert(r.snap, ValidateList("tx", r.batch))
             IN  files'.tx \in {Doc(JsonList("tx", r.snap)), Doc(JsonList("tx", merged))}]_vars

\* C7: last writer wins.  When the write of an upsert or delete whose dump
\* succeeded closes the file, the file holds exactly the document that call
\* computed from its own, possibly stale, read.
C7_LastWriterWins ==
    [][\A th \in Threads :
          (/\ req[th].pc = "w_dump"
           /\ req[th].buf.st = "doc"
           /\ req'[th] # req[th])
          => files'[FileOf(req[th].op)] = req[th].buf]_vars

\* The steps in which JsonStore writes: the constructor's and _write_json's.
StoreWriteStep(th) ==
    /\ req[th].pc \in {"ctor_tx_open", "ctor_tx_dump", "ctor_cat_open",
                       "ctor_cat_dump", "w_open", "w_dump"}
    /\ req'[th] # req[th]

\* C8: sole writer.  transactions.json and categories.json change only in
\* steps of JsonStore operations.
C8_SoleWriter == [][files' # files => \E th \in Threads : StoreWriteStep(th)]_vars

\* An invalid transaction in the words of C9: currency not of 3 characters, or a type outside the three.
BadFields(p) == Len(p.currency) # 3 \/ p.type \notin {"expense", "income", "transfer"}
BadPost(r) == r.op = "POST_TXS" /\ \E i \in 1..Len(r.batch) : BadFields(r.batch[i])

\* C9 as amended: a POST /transactions with an invalid transaction in its
\* batch is answered 422 and upsert_transactions is never called for it; the
\* only steps in which the request writes are those of the store constructor
\* that get_store ran before the validation.
C9_RejectedBeforeUpsert ==
    [][\A th \in Threads :
          (BadPost(req[th]) /\ req'[th] # req[th])
          => /\ req'[th].pc \in {"ctor_tx_open", "ctor_tx_dump", "ctor_cat",
                                 "ctor_cat_open", "ctor_cat_dump", "call", "done", "idle"}
             /\ req'[th].ret = "-"
             /\ req'[th].pc = "done" => req'[th].code = 422
             /\ files'.tx # files.tx => req[th].pc \in {"ctor_tx_open", "ctor_tx_dump"}]_vars

\* C9 as claimed: no step of such a request changes transactions.json.
C9_DocumentUnchanged ==
    [][\A th \in Threads :
          (BadPost(req[th]) /\ req'[th] # req[th])
          => /\ req'[th].ret = "-"
             /\ req'[th].pc = "done" => req'[th].code = 422
             /\ files'.tx = files.tx]_vars

\* A batch of a valid and an invalid transaction has been rejected.
C9_Witness ==
    \E th \in Threads :
        /\ req[th].pc = "done"
        /\ req[th].code = 422
        /\ Len(req[th].batch) = 2
        /\ \E i, j \in 1..2 : BadFields(req[th].batch[i]) /\ ~BadFields(req[th].batch[j])

\* C10: look-up by id.  GET /transactions/{id} answers 200 with the stored
\* transaction of that id when there is one and 404 when there is none, and
\* the look-up leaves both documents as they were.
C10_Lookup ==
    [][\A th \in Threads :
          (req[th].op = "GET_TX" /\ req[th].pc # "done" /\ req'[th].pc = "done")
          => LET hit == StoredWithId(files.tx, req[th].id)
             IN  /\ IF hit # <<>>
                    THEN req'[th].code = 200 /\ req'[th].body = <<Head(hit)>>
                    ELSE req'[th].code = 404
                 /\ files' = files]_vars

\* C11: batch collision.  When a POST /transactions whose valid batch names
\* one id twice has ended, transactions.json holds exactly one entry with
\* that id and its fields are those of the later of the two.
C11_BatchCollision ==
    \A th \in Threads :
        LET r == req[th]
        IN  (/\ r.pc = "done"
             /\ r.op = "POST_TXS"
             /\ Len(r.batch) = 2
             /\ \A i \in 1..2 : r.batch[i] \in ValidTxPayloads
             /\ r.batch[1].id = r.batch[2].id)
            => /\ files.tx.st = "doc"
               /\ StoredWithId(files.tx, r.batch[2].id) = <<r.batch[2]>>

\* C12: store construction.  With requests served one at a time, the
\* constructor's write of a document it found missing leaves that document
\* an empty array and the other document as it was; when the constructor
\* returns both documents exist; and a list request whose constructor has
\* just created the document it reads answers 200 with an empty list.
C12_Construction ==
    [][\A th \in Threads :
          LET r == req[th]
          IN  /\ (r.pc \in {"ctor_tx_dump", "ctor_cat_dump"} /\ req'[th] # r)
                 => /\ files'[CtorFile(r.pc)] = Doc(<<>>)
                    /\ \A f \in {"tx", "cat"} : f # CtorFile(r.pc) => files'[f] = files[f]
              /\ (r.pc \in {"ctor_tx", "ctor_cat", "call"}
                  /\ req'[th].pc \notin {"ctor_tx", "ctor_cat", "ctor_tx_open", "ctor_cat_open"}
                  /\ req'[th] # r)
                 => Exists(files.tx) /\ Exists(files.cat)
              /\ (/\ req'[th].pc = "done"
                  /\ \/ r.op = "GET_TXS" /\ r.pc = "ctor_cat"
                     \/ r.op = "GET_CATS" /\ r.pc = "call"
                     \/ r.op = "GET_TXS" /\ r.pc = "call" /\ files.tx = Doc(<<>>))
                 => req'[th].code = 200 /\ req'[th].body = <<>>]_vars

\* The constructor of the first request, a GET /categories, has just written
\* categories.json, which it had found missing, and has returned.
C12_Witness ==
    \E th \in Threads :
        /\ nreq = 1
        /\ req[th].pc = "call"
        /\ req[th].op = "GET_CATS"
        /\ files = [tx |-> Doc(<<>>), cat |-> Doc(<<>>)]

\* C13: fire and forget.  The startup handler returns with the conversion
\* only scheduled; the application comes to serve; every request a worker
\* thread has taken is answered, whatever the conversion does and even if it
\* never ends; and the step in which the conversion's exception is dropped
\* changes nothing but the conversion task.
C13_FireAndForget ==
    /\ [][server' # server => server' = "serving" /\ conv'.pc = "scheduled"]_vars
    /\ [][conv'.pc = "suppressed" /\ conv.pc # "suppressed"
            => UNCHANGED <<files, inputDir, outFiles, server, active, offered, req,
                           nreq, last>>]_vars
    /\ <>(server = "serving")
    /\ \A t \in Threads : (req[t].pc # "idle") ~> (req[t].pc = "done")

\* A request has been answered while the conversion was still running.
C13_Witness ==
    /\ server = "serving"
    /\ conv.pc = "running"
    /\ conv.pending # {}
    /\ \E th \in Threads : req[th].pc = "done" /\ req[th].code = 200

\* C14: no isolation of failures.  Every turn of convert_directory's loop
\* that stays in the loop has written one more output; when a conversion
\* raises, the loop is left at once with the outputs written so far kept and
\* the PDFs not yet reached left unconverted, and nothing is converted
\* afterwards; convert_directory returns normally only with every PDF
\* converted.
C14_NoIsolation ==
    /\ [][/\ (conv.pc = "running" /\ conv'.pc = "running" /\ conv' # conv)
             => \E stem \in conv.pending :
                   /\ stem \notin outFiles
                   /\ outFiles' = outFiles \cup {stem}
                   /\ conv'.pending = conv.pending \ {stem}
          /\ (conv.pc = "running" /\ conv'.pc = "suppressed")
             => /\ conv.pending # {}
                /\ conv'.pending = conv.pending
                /\ outFiles' = outFiles
          /\ conv.pc = "suppressed" => conv' = conv /\ outFiles' = outFiles
          /\ outFiles \subseteq outFiles']_vars
    /\ [](conv.pc = "suppressed"
            => conv.pending # {} /\ outFiles = inputDir \ conv.pending)
    /\ [](conv.pc = "finished" => outFiles = inputDir)

\* The second of three PDFs has raised: one output is on disk and two PDFs
\* stay unconverted, and requests have been served since.
C14_Witness ==
    /\ conv.pc = "suppressed"
    /\ Cardinality(outFiles) = 1
    /\ Cardinality(conv.pending) = 2
    /\ nreq > 0

\* The category a payload stands for: parent_id is null when left out.
CategoryOf(p) ==
    [id |-> p.id, name |-> p.name,
     parent_id |-> IF "parent_id" \in DOMAIN p THEN p.parent_id ELSE None]

\* C15: category round trip.  With requests served one at a time, a POST
\* /categories of one category c is answered 200 with a list that holds
\* exactly one entry with c's id, and that entry has c's name and c's
\* parent_id (null when the payload left it out), whether or not the parent
\* is a stored category or c itself; categories.json holds that same list.
C15_CategoryRoundTrip ==
    \A th \in Threads :
        LET r == req[th]
        IN  (r.pc = "done" /\ r.op = "POST_CATS" /\ Len(r.batch) = 1)
            => /\ r.ret = "None"
               /\ r.code = 200
               /\ SelectSeq(r.body, LAMBDA e : e.id = r.batch[1].id)
                     = <<CategoryOf(r.batch[1])>>
               /\ files.cat = Doc(r.body)

\* A category whose parent is no stored category has been upserted over an
\* earlier category of another id, and is listed with that parent.
C15_Witness ==
    \E th \in Threads :
        LET r == req[th]
        IN  /\ r.pc = "done"
            /\ r.op = "POST_CATS"
            /\ r.code = 200
            /\ Len(r.batch) = 1
            /\ r.batch[1].id = "c2"
            /\ Len(r.body) = 2
            /\ r.body[2].parent_id = "c9"
            /\ "c9" \notin Ids(r.body)
            /\ r.body[1].parent_id = None

IdSeq(seq) == [i \in 1..Len(seq) |-> seq[i].id]
\* The ids of a sequence not in seen, each at its first occurrence.
RECURSIVE FirstOccurrences(_, _)
FirstOccurrences(ids, seen) ==
    IF ids = <<>> THEN <<>>
    ELSE IF Head(ids) \in seen THEN FirstOccurrences(Tail(ids), seen)
    ELSE <<Head(ids)>> \o FirstOccurrences(Tail(ids), seen \cup {Head(ids)})

\* C16: file order.  With requests served one at a time, GET /transactions
\* answers the entries in the order of the file; and when a POST
\* /transactions of valid transactions over a readable document has ended,
\* the file holds the ids it held before in the positions they had, followed
\* by the ids new to it in the order of their first occurrence in the batch.
C16_FileOrder ==
    \A th \in Threads :
        LET r == req[th]
        IN  /\ (r.pc = "done" /\ r.op = "GET_TXS" /\ r.code = 200)
               => r.body = files.tx.ents
            /\ (/\ r.pc = "done"
                /\ r.op = "POST_TXS"
                /\ \A i \in 1..Len(r.batch) : r.batch[i] \in ValidTxPayloads
                /\ r.ret # "raise" \/ r.buf.st = "partial")
               => /\ files.tx.st = "doc"
                  /\ IdSeq(files.tx.ents)
                        = IdSeq(r.snap) \o FirstOccurrences(IdSeq(r.batch), Ids(r.snap))

\* C17: per-request construction.  No step of a JsonStore constructor, in
\* any interleaving of requests, takes an entry out of a document that
\* exists or makes the document unreadable: the entries a readable document
\* holds before the constructor's open or dump are the entries it holds
\* after it.
C17_ConstructorHarmless ==
    [][\A th \in Threads :
          LET r == req[th]
              f == CtorFile(r.pc)
          IN  (/\ r.pc \in {"ctor_tx_open", "ctor_cat_open", "ctor_tx_dump", "ctor_cat_dump"}
               /\ req'[th] # r
               /\ files[f].st = "doc")
              => /\ files'[f].ents = files[f].ents
                 /\ files[f].ents # <<>> => files'[f] = files[f]]_vars

\* C18: upsert frame.  With requests served one at a time, no step of the
\* write of upsert_transactions changes categories.json, and when the write
\* is over every transaction the call had read whose id is not in the batch
\* is stored with the fields it had.
C18_UpsertFrame ==
    [][\A th \in Threads :
          LET r == req[th]
          IN  (r.op = "POST_TXS" /\ r.pc \in {"w_open", "w_dump"} /\ req'[th] # r)
              => /\ files'.cat = files.cat
                 /\ r.pc = "w_dump"
                    => \A i \in 1..Len(r.snap) :
                          r.snap[i].id \notin Ids(r.batch)
                          => StoredWithId(files'.tx, r.snap[i].id) = <<TxJson(r.snap[i])>>]_vars
====
